---- MODULE Spec2Model ----
(***************************************************************************)
(* A model of pysec.alg (the knp substring search) and of pysec.io.fd      *)
(* (FD, File, the open modes, the read/write/truncate path).               *)
(*                                                                         *)
(* Python sequences are 0-based; TLA+ sequences are 1-based.  Offsets,     *)
(* cursors and positions in this module are the program's 0-based values;  *)
(* PyAt and PySlice do the conversion.                                      *)
(***************************************************************************)
EXTENDS Integers, Sequences, FiniteSets, TLC

(***************************************************************************)
(* Bounds of the model.                                                    *)
(***************************************************************************)
MaxSrc == 4            \* longest source handed to knp
MaxPat == 3            \* longest pattern handed to knp

Alphabet == {1, 2}     \* the elements of sources and patterns

\* An optional argument: None is <<>>, a given value n is <<n>>.
None == <<>>
Some(n) == <<n>>
IsNone(o) == o = <<>>
Val(o) == o[1]

Min(a, b) == IF a <= b THEN a ELSE b
Max(a, b) == IF a >= b THEN a ELSE b

\* All sequences over S whose length is in lo..hi.
SeqsOf(S, lo, hi) == UNION {[1..n -> S] : n \in lo..hi}

\* seq[i] of Python: 0-based, a negative index counts from the end.
PyAt(seq, i) == IF i < 0 THEN seq[Len(seq) + i + 1] ELSE seq[i + 1]

\* seq[a:b] of Python for 0 <= a: clipped to the sequence.
PySlice(seq, a, b) ==
    LET hi == Min(b, Len(seq))
    IN  IF a >= hi THEN <<>> ELSE SubSeq(seq, a + 1, hi)

(***************************************************************************)
(* pysec.alg.knp                                                           *)
(***************************************************************************)

\* The inner while of the shift-table loop (alg.py:31-32).  shifts is the
\* Python list, held 1-based: shifts[k] of the code is shifts[k + 1] here.
RECURSIVE ShiftWhile(_, _, _, _)
ShiftWhile(pattern, shifts, pos, shift) ==
    IF PyAt(pattern, pos) # PyAt(pattern, pos - shift) /\ shift <= pos
    THEN ShiftWhile(pattern, shifts, pos, shift + shifts[pos - shift + 1])
    ELSE shift

\* The for loop over the pattern (alg.py:30-33).
RECURSIVE ShiftFor(_, _, _, _)
ShiftFor(pattern, shifts, pos, shift) ==
    IF pos >= Len(pattern)
    THEN shifts
    ELSE LET s == ShiftWhile(pattern, shifts, pos, shift)
         IN  ShiftFor(pattern, [shifts EXCEPT ![pos + 2] = s], pos + 1, s)

\* A shift table that never looks at the pattern: every shift is 1.
ShiftTableAllOnes(pattern) == [k \in 1..(Len(pattern) + 1) |-> 1]

\* The shift table of a pattern (alg.py:28-33).
ShiftTable(pattern) ==
    ShiftFor(pattern, [k \in 1..(Len(pattern) + 1) |-> 1], 0, 1)

\* The inner while of the search loop (alg.py:38-41): fold the window start
\* and the match length until the element sub continues the match.
RECURSIVE SearchWhile(_, _, _, _, _)
SearchWhile(pattern, shifts, sub, start, mlen) ==
    IF mlen = Len(pattern) \/ (mlen >= 0 /\ PyAt(pattern, mlen) # sub)
    THEN LET sl == shifts[mlen + 1]
         IN  SearchWhile(pattern, shifts, sub, start + sl, mlen - sl)
    ELSE [start |-> start, mlen |-> mlen]

\* The for loop over islice(source, start, stop) (alg.py:37-44): idx is the
\* 0-based index of the next element, last the end of the slice; out
\* collects the yielded offsets in the order they are yielded.
RECURSIVE SearchFor(_, _, _, _, _, _, _, _)
SearchFor(source, pattern, shifts, idx, last, start, mlen, out) ==
    IF idx >= last
    THEN out
    ELSE LET w == SearchWhile(pattern, shifts, PyAt(source, idx), start, mlen)
             m == w.mlen + 1
         IN  SearchFor(source, pattern, shifts, idx + 1, last, w.start, m,
                       IF m = Len(pattern) THEN Append(out, w.start) ELSE out)

\* knp(source, pattern, start, stop): the sequence of yielded offsets.
\* islice(source, start, stop) runs over the indices start..stop-1 that the
\* source has; stop = None runs to the end of the source.
knp(source, pattern, start, stop) ==
    LET last == IF IsNone(stop) THEN Len(source) ELSE Min(Val(stop), Len(source))
    IN  SearchFor(source, pattern, ShiftTable(pattern), start, last, start, 0, <<>>)

\* knp_first (alg.py:47-52): the first yielded offset, -1 on StopIteration.
knp_first(source, pattern, start, stop) ==
    LET out == knp(source, pattern, start, stop)
    IN  IF out = <<>> THEN -1 ELSE Head(out)

\* knp_find (alg.py:55-59): 1 as soon as an offset is yielded, else 0.
knp_find(source, pattern, start, stop) ==
    LET out == knp(source, pattern, start, stop)
    IN  IF out # <<>> THEN 1 ELSE 0

(***************************************************************************)
(* pysec.io.fd: the operating system under the handles                     *)
(***************************************************************************)
MaxSize == 2           \* largest file size the model lets a call produce
MaxData == 2           \* longest data handed to write and pwrite
MaxTries == 2          \* largest tries handed to write and pwrite
NumFds == 2            \* size of the process's descriptor table
NumHandles == 2        \* handle objects the program may construct
MaxCloses == 2         \* close() calls the model follows per handle

\* The open(2) flags of Linux, as the os module gives them.
O_RDONLY == 0
O_WRONLY == 1
O_RDWR == 2
O_ACCMODE == 3
O_CREAT == 64
O_EXCL == 128
O_TRUNC == 512
O_APPEND == 1024

\* The open modes of regular files (fd.py:187-207).
FO_READNEW == 0
FO_READEX == 1
FO_WRNEW == 2
FO_WREX == 3
FO_WREXTR == 4
FO_APNEW == 5
FO_APEX == 6
FO_APEXTR == 7
FO_READ == 8
FO_WRITE == 9
FO_APPEND == 10

\* fd.py:210
FO_NEW_MODES == {FO_READNEW, FO_WRNEW, FO_APNEW, FO_READ, FO_WRITE, FO_APPEND}

\* fd.py:213-214
FO_MODES == {FO_READNEW, FO_READEX, FO_WRNEW, FO_WREX, FO_WREXTR,
             FO_APNEW, FO_APEX, FO_APEXTR, FO_READ, FO_WRITE, FO_APPEND}

\* a & b and a | b of Python on non-negative integers.
RECURSIVE BitAnd(_, _)
BitAnd(a, b) ==
    IF a = 0 \/ b = 0 THEN 0
    ELSE (a % 2) * (b % 2) + 2 * BitAnd(a \div 2, b \div 2)

RECURSIVE BitOr(_, _)
BitOr(a, b) ==
    IF a = 0 THEN b
    ELSE IF b = 0 THEN a
    ELSE Max(a % 2, b % 2) + 2 * BitOr(a \div 2, b \div 2)

\* The flags each _fo_* function hands to os.open (fd.py:217-280), in the
\* order of _FOMODE2FUNC (fd.py:286-287).
OpenFlags(oflag) ==
    CASE oflag = FO_READNEW -> BitOr(O_RDONLY, BitOr(O_CREAT, O_EXCL))
      [] oflag = FO_READEX  -> O_RDONLY
      [] oflag = FO_WRNEW   -> BitOr(O_WRONLY, BitOr(O_CREAT, O_EXCL))
      [] oflag = FO_WREX    -> O_WRONLY
      [] oflag = FO_WREXTR  -> BitOr(O_WRONLY, O_TRUNC)
      [] oflag = FO_APNEW   -> BitOr(O_WRONLY, BitOr(O_APPEND, BitOr(O_CREAT, O_EXCL)))
      [] oflag = FO_APEX    -> BitOr(O_WRONLY, O_APPEND)
      [] oflag = FO_APEXTR  -> BitOr(O_WRONLY, BitOr(O_APPEND, O_TRUNC))
      [] oflag = FO_READ    -> BitOr(O_RDONLY, O_CREAT)
      [] oflag = FO_WRITE   -> BitOr(O_WRONLY, O_CREAT)
      [] oflag = FO_APPEND  -> BitOr(O_WRONLY, BitOr(O_APPEND, O_CREAT))

Fds == 0..(NumFds - 1)
Handles == 1..NumHandles
Hole == 0                      \* the byte a file reads where none was written
\* The data callers write: the first n bytes of 1, 2, 1, 2, ...
Pattern(n) == [i \in 1..n |-> ((i - 1) % 2) + 1]
DataSet == {Pattern(n) : n \in 0..MaxData}
TriesSet == 0..MaxTries
OptInts(lo, hi) == {None} \cup {Some(n) : n \in lo..hi}

VARIABLES
    file,      \* the regular file at the one path: [exists, data]
    fdt,       \* the descriptor table: fd -> [open, flags, owner]
    hs,        \* the handle objects: h -> [st, fd, pos]
    closes,    \* h -> how often close() of h invoked the close primitive
    fr,        \* the frame of the running or the last call
    rt         \* the data of a write at 0 through a handle that made the file

ioVars == <<file, fdt, hs, closes, fr, rt>>

\* A descriptor slot that is not open.  owner is the handle File.open gave the
\* descriptor to (0: none); it is a record of history, the code keeps none.
ClosedFd == [open |-> FALSE, flags |-> 0, owner |-> 0]

\* A handle object that was not constructed yet.  The object holds fd
\* (fd.py:92) and pos (fd.py:300).  The other fields record its history, the
\* code keeps none of them: st is "none", "live" or "closed", "closed" once
\* close() was called; made tells that its File.open created the file.
NoHandle == [st |-> "none", fd |-> -1, pos |-> 0, made |-> FALSE]

\* The frame of a call: its name, handle, arguments, locals and outcome.
\* err is "" while the call runs, "ok" when it returned, else the exception
\* it raised, with why telling the cause.  at is the position the call
\* addresses: pos, or the cursor when pos is None.  off, buf and n are the
\* arguments and the result of the latest call of the write primitive, zrun
\* the number of zero results in a row up to now.  seen is the flags the
\* descriptor of the handle had when the call began (for File.open and
\* File(fd): when the handle was made).
NoFrame ==
    [op |-> "none", h |-> 0, pc |-> "done", err |-> "ok", fd |-> -1,
     stale |-> FALSE, owner |-> 0, why |-> "",
     oflag |-> 0, mode |-> 0, modeOk |-> TRUE, inoOk |-> TRUE,
     existed |-> FALSE, rawfd |-> -1, rawClosed |-> 0,
     size |-> None, pos |-> None, at |-> 0, ret |-> <<>>,
     data |-> <<>>, tries |-> 0, left |-> 0, wlen |-> 0, zrun |-> 0, n |-> 0,
     spaceOk |-> TRUE, off |-> 0, buf |-> <<>>, payload |-> <<>>, seq |-> FALSE,
     oldSize |-> 0, oldPos |-> 0, stop |-> None, spans |-> <<>>, seen |-> 0]

\* The lowest descriptor number that is free: what open(2) returns.
FreeFds == {fd \in Fds : ~fdt[fd].open}
LowestFree == CHOOSE fd \in FreeFds : \A g \in FreeFds : fd <= g

\* os.open(fpath, flags, mode) on the one path: [err, fd, file, fdt].
\* F_GETFL later reports the access mode and O_APPEND, not the creation flags.
OsOpen(flags) ==
    LET creat == BitAnd(flags, O_CREAT) # 0
        excl  == BitAnd(flags, O_EXCL) # 0
        trunc == BitAnd(flags, O_TRUNC) # 0
        keep  == BitAnd(flags, BitOr(O_ACCMODE, O_APPEND))
        fail(e) == [err |-> e, fd |-> -1, file |-> file, fdt |-> fdt]
    IN  IF file.exists /\ creat /\ excl THEN fail("EEXIST")
        ELSE IF ~file.exists /\ ~creat THEN fail("ENOENT")
        ELSE IF FreeFds = {} THEN fail("EMFILE")
        ELSE [err |-> "ok",
              fd |-> LowestFree,
              file |-> [exists |-> TRUE,
                        data |-> IF file.exists /\ ~trunc THEN file.data ELSE <<>>],
              fdt |-> [fdt EXCEPT ![LowestFree] =
                          [open |-> TRUE, flags |-> keep, owner |-> 0]]]

\* close(fd) of the operating system on a descriptor table.
OsClose(table, fd) == [table EXCEPT ![fd] = ClosedFd]

\* fstat(fd).st_size, fcntl(fd, F_GETFL) and the access mode of an open
\* descriptor; all descriptors of the model refer to the one file.
CanRead(flags) == BitAnd(flags, O_ACCMODE) \in {O_RDONLY, O_RDWR}
CanWrite(flags) == BitAnd(flags, O_ACCMODE) \in {O_WRONLY, O_RDWR}

\* ftruncate: cut the content, or extend it with holes.
Resize(data, length) ==
    IF length <= Len(data)
    THEN SubSeq(data, 1, length)
    ELSE data \o [i \in 1..(length - Len(data)) |-> Hole]

\* The positioned read primitive: the bytes of [pos, pos + size) the file has.
PreadAt(data, size, pos) == PySlice(data, pos, pos + size)

\* The positioned write primitive: buf laid over the content at offset off,
\* a gap between the old end and off reading as holes.
PwriteAt(data, buf, off) ==
    [i \in 1..Max(Len(data), off + Len(buf)) |->
        IF i > off /\ i <= off + Len(buf) THEN buf[i - off]
        ELSE IF i <= Len(data) THEN data[i]
        ELSE Hole]

(***************************************************************************)
(* pysec.io.fd: the guards                                                 *)
(***************************************************************************)

\* The flags as an earlier call found them.
GuardFlagsEarlier(h) == fr.seen

\* fd.flags as the guards read it (fd.py:65, 75 over fd.py:175-177):
\* fcntl(self.fd, F_GETFL) at the time of the call.
GuardFlags(h) == fdt[hs[h].fd].flags

\* read_check (fd.py:65): not fd.flags & os.O_WRONLY
ReadGuard(flags) == BitAnd(flags, O_WRONLY) = 0

\* write_check (fd.py:75): fd.flags & os.O_WRONLY or fd.flags & os.O_APPEND
WriteGuard(flags) == BitAnd(flags, O_WRONLY) # 0 \/ BitAnd(flags, O_APPEND) # 0

(***************************************************************************)
(* File.open, FD.close                                                     *)
(***************************************************************************)

\* No call is inside its write loop.
Idle == fr.pc = "done"

\* The frame a call on handle h starts with.  stale: close() was called on h
\* before; owner: the handle that holds the descriptor the call names.
CallFrame(op, h) ==
    [NoFrame EXCEPT !.op = op, !.h = h, !.fd = hs[h].fd,
                    !.stale = (hs[h].st = "closed"),
                    !.owner = fdt[hs[h].fd].owner,
                    !.seen = fdt[hs[h].fd].flags,
                    !.oldSize = Len(file.data), !.oldPos = hs[h].pos]

Failed(frame, err, why) == [frame EXCEPT !.err = err, !.why = why]

\* fd.py:335: the test that decides whether ino_check is consulted.
NeedsInoCheck(oflag, mode) == mode \in FO_NEW_MODES

\* The except branch of File.open without its close.
OpenRollbackLeak(table, fd) == table

\* The except branch of File.open (fd.py:337-340): if fd > -1: os.close(fd).
\* fd is the int os.open returned or the File made of it; a File compares
\* greater than -1 and os.close takes its __int__.
OpenRollback(table, fd) == IF fd > -1 THEN OsClose(table, fd) ELSE table

\* File.open(fpath, oflag, mode) (fd.py:321-341), the result becoming handle
\* h.  modeOk and inoOk are the answers fcheck.mode_check and fcheck.ino_check
\* would give to this call.
FileOpen(h, oflag, mode, modeOk, inoOk) ==
    /\ Idle
    /\ hs[h].st = "none"
    /\ LET base == [NoFrame EXCEPT !.op = "open", !.h = h, !.oflag = oflag,
                                   !.mode = mode, !.modeOk = modeOk,
                                   !.inoOk = inoOk, !.existed = file.exists]
           r == OsOpen(OpenFlags(oflag))
       IN  IF oflag \notin FO_MODES
           THEN /\ fr' = Failed(base, "ValueError", "oflag")
                /\ UNCHANGED <<file, fdt, hs, closes>>
           ELSE IF ~modeOk
           THEN /\ fr' = Failed(base, "ValueError", "mode")
                /\ UNCHANGED <<file, fdt, hs, closes>>
           ELSE IF r.err # "ok"
           THEN /\ fr' = Failed(base, "OSError", r.err)
                /\ UNCHANGED <<file, fdt, hs, closes>>
           ELSE IF NeedsInoCheck(oflag, mode) /\ ~inoOk
           THEN \* except: fd > -1, os.close(fd), raise (fd.py:337-340)
                /\ file' = r.file
                /\ fdt' = OpenRollback(r.fdt, r.fd)
                /\ fr' = [Failed(base, "OSError", "inodes") EXCEPT
                             !.rawfd = r.fd, !.rawClosed = 1]
                /\ UNCHANGED <<hs, closes>>
           ELSE /\ file' = r.file
                /\ fdt' = [r.fdt EXCEPT ![r.fd].owner = h]
                /\ hs' = [hs EXCEPT ![h] = [st |-> "live", fd |-> r.fd, pos |-> 0,
                                            made |-> ~file.exists]]
                /\ fr' = [base EXCEPT !.fd = r.fd, !.rawfd = r.fd,
                                      !.seen = r.fdt[r.fd].flags]
                /\ UNCHANGED closes

\* File(fd) (fd.py:298-300 over fd.py:88-92) on the descriptor a caller got
\* from os.open(fpath, flags) itself, the object becoming handle h: any
\* descriptor number >= 0 makes a handle, with the cursor at 0.
FileWrap(h, flags) ==
    /\ Idle
    /\ hs[h].st = "none"
    /\ LET base == [NoFrame EXCEPT !.op = "wrap", !.h = h, !.mode = flags,
                                   !.existed = file.exists]
           r == OsOpen(flags)
       IN  IF r.err # "ok"
           THEN /\ fr' = Failed(base, "OSError", r.err)
                /\ UNCHANGED <<file, fdt, hs, closes>>
           ELSE /\ file' = r.file
                /\ fdt' = [r.fdt EXCEPT ![r.fd].owner = h]
                /\ hs' = [hs EXCEPT ![h] = [st |-> "live", fd |-> r.fd, pos |-> 0,
                                            made |-> ~file.exists]]
                /\ fr' = [base EXCEPT !.fd = r.fd, !.rawfd = r.fd,
                                      !.seen = r.fdt[r.fd].flags]
                /\ UNCHANGED closes

\* File.touch(fpath, mode) (fd.py:344-355): os.open(fpath, O_RDONLY | O_CREAT,
\* mode), and finally os.close(fd) of the descriptor it got.
Touch(mode, modeOk) ==
    /\ Idle
    /\ LET base == [NoFrame EXCEPT !.op = "touch", !.mode = mode,
                                   !.modeOk = modeOk, !.existed = file.exists]
           r == OsOpen(BitOr(O_RDONLY, O_CREAT))
       IN  IF ~modeOk
           THEN /\ fr' = Failed(base, "ValueError", "mode")
                /\ UNCHANGED <<file, fdt>>
           ELSE IF r.err # "ok"
           THEN /\ fr' = Failed(base, "OSError", r.err)
                /\ UNCHANGED <<file, fdt>>
           ELSE /\ file' = r.file
                /\ fdt' = OsClose(r.fdt, r.fd)
                /\ fr' = [base EXCEPT !.rawfd = r.fd, !.rawClosed = 1]
    /\ UNCHANGED <<hs, closes>>

\* FD.close (fd.py:110-112): unistd.close(self.fd), whatever happened to the
\* handle before.  The primitive fails with EBADF on a number that is not open.
CloseCall(h, op) ==
    /\ Idle
    /\ hs[h].st # "none"
    /\ closes[h] < MaxCloses
    /\ closes' = [closes EXCEPT ![h] = @ + 1]
    /\ hs' = [hs EXCEPT ![h].st = "closed"]
    /\ IF fdt[hs[h].fd].open
       THEN /\ fdt' = OsClose(fdt, hs[h].fd)
            /\ fr' = CallFrame(op, h)
       ELSE /\ fdt' = fdt
            /\ fr' = Failed(CallFrame(op, h), "OSError", "EBADF")
    /\ UNCHANGED file

Close(h) == CloseCall(h, "close")

\* FD.__exit__ (fd.py:105-107): the end of a with block calls close().
ScopedExit(h) == CloseCall(h, "exit")

\* FD.size (fd.py:150-153): os.fstat(self.fd).st_size.
SizeQuery(h) ==
    /\ Idle
    /\ hs[h].st # "none"
    /\ fr' = IF fdt[hs[h].fd].open
             THEN [CallFrame("size", h) EXCEPT !.ret = <<Len(file.data)>>]
             ELSE Failed(CallFrame("size", h), "OSError", "EBADF")
    /\ UNCHANGED <<file, fdt, hs, closes>>

\* FD.flags getter (fd.py:175-177): fcntl(self.fd, F_GETFL).
FlagsGet(h) ==
    /\ Idle
    /\ hs[h].st # "none"
    /\ fr' = IF fdt[hs[h].fd].open
             THEN [CallFrame("flags", h) EXCEPT !.ret = <<fdt[hs[h].fd].flags>>]
             ELSE Failed(CallFrame("flags", h), "IOError", "EBADF")
    /\ UNCHANGED <<file, fdt, hs, closes>>

\* FD.flags setter (fd.py:180-182): fcntl(self.fd, F_SETFL, flags).  F_SETFL
\* changes O_APPEND and leaves the access mode as it is.
FlagsSet(h, flags) ==
    /\ Idle
    /\ hs[h].st # "none"
    /\ IF fdt[hs[h].fd].open
       THEN /\ fdt' = [fdt EXCEPT ![hs[h].fd].flags =
                          BitOr(BitAnd(@, O_ACCMODE), BitAnd(flags, O_APPEND))]
            /\ fr' = [CallFrame("setflags", h) EXCEPT !.mode = flags]
       ELSE /\ fdt' = fdt
            /\ fr' = Failed([CallFrame("setflags", h) EXCEPT !.mode = flags],
                            "IOError", "EBADF")
    /\ UNCHANGED <<file, hs, closes>>

(***************************************************************************)
(* File: read, pread, write, pwrite, truncate, moveto                      *)
(***************************************************************************)

\* The cursor after a read that advances by the size asked for.
CursorAfterReadAsked(pos, size, chunk) == pos + size

\* The cursor after read (fd.py:366): self.pos = pos + len(chunk).
CursorAfterRead(pos, size, chunk) == pos + Len(chunk)

\* File.read and File.pread (fd.py:357-379); seq tells read from pread.
\* The guard reads fd.flags, size = None reads self.size, pos = None is the
\* cursor; only read moves the cursor, to pos + len(chunk).
ReadCall(h, size, pos, seq) ==
    /\ Idle
    /\ hs[h].st # "none"
    /\ LET d == fdt[hs[h].fd]
           base == [CallFrame(IF seq THEN "read" ELSE "pread", h) EXCEPT
                       !.size = size, !.pos = pos, !.seq = seq,
                       !.at = IF IsNone(pos) THEN hs[h].pos ELSE Val(pos)]
           sz == IF IsNone(size) THEN Len(file.data) ELSE Val(size)
           p == IF IsNone(pos) THEN hs[h].pos ELSE Val(pos)
           chunk == PreadAt(file.data, sz, p)
       IN  IF ~d.open
           THEN fr' = Failed(base, "IOError", "EBADF") /\ hs' = hs
           ELSE IF ~ReadGuard(GuardFlags(h))
           THEN fr' = Failed(base, "NotReadableFD", "") /\ hs' = hs
           ELSE IF sz < 0
           THEN fr' = Failed(base, "ValueError", "size") /\ hs' = hs
           ELSE IF p < 0
           THEN fr' = Failed(base, "OSError", "EINVAL") /\ hs' = hs
           ELSE IF ~CanRead(d.flags)
           THEN fr' = Failed(base, "OSError", "EBADF") /\ hs' = hs
           ELSE /\ fr' = [base EXCEPT !.ret = chunk]
                /\ hs' = IF seq
                         THEN [hs EXCEPT ![h].pos = CursorAfterRead(p, sz, chunk)]
                         ELSE hs
    /\ UNCHANGED <<file, fdt, closes>>

Read(h, size, pos) == ReadCall(h, size, pos, TRUE)
Pread(h, size, pos) == ReadCall(h, size, pos, FALSE)

\* File.__getitem__ with an int index (fd.py:307-308): self.pread(1, index).
GetItem(h, index) == Pread(h, Some(1), Some(index))

\* The cursor moveto would set without its test of pos.
MovetoPosUnchecked(cur, pos) == pos

\* File.moveto (fd.py:452-457).
MovetoPos(cur, pos) == IF pos < 0 THEN cur ELSE pos

Moveto(h, pos) ==
    /\ Idle
    /\ hs[h].st # "none"
    /\ hs' = [hs EXCEPT ![h].pos = MovetoPos(@, pos)]
    /\ fr' = IF pos < 0
             THEN Failed([CallFrame("moveto", h) EXCEPT !.pos = Some(pos)],
                         "ValueError", "pos")
             ELSE [CallFrame("moveto", h) EXCEPT !.pos = Some(pos)]
    /\ UNCHANGED <<file, fdt, closes>>

\* The cursor rule of the docstring of truncate (fd.py:440-441): a cursor in
\* a part of the file that no longer exists moves to the end of the file.
TruncateCursorDocstring(cur, size, length) == IF cur > length THEN length ELSE cur

\* The cursor after truncate (fd.py:446-449): size is the size before the
\* call; if size > length: self.moveto(length).
TruncateCursor(cur, size, length) ==
    IF size > length THEN MovetoPos(cur, length) ELSE cur

\* File.truncate (fd.py:437-449).
Truncate(h, length) ==
    /\ Idle
    /\ hs[h].st # "none"
    /\ LET d == fdt[hs[h].fd]
           base == [CallFrame("truncate", h) EXCEPT !.size = Some(length)]
       IN  IF ~d.open
           THEN fr' = Failed(base, "IOError", "EBADF") /\ UNCHANGED <<file, hs>>
           ELSE IF ~WriteGuard(GuardFlags(h))
           THEN fr' = Failed(base, "NotWriteableFD", "") /\ UNCHANGED <<file, hs>>
           ELSE IF length < 0
           THEN fr' = Failed(base, "ValueError", "length") /\ UNCHANGED <<file, hs>>
           ELSE IF ~CanWrite(d.flags)
           THEN fr' = Failed(base, "OSError", "EINVAL") /\ UNCHANGED <<file, hs>>
           ELSE /\ file' = [file EXCEPT !.data = Resize(@, length)]
                /\ hs' = [hs EXCEPT ![h].pos =
                             TruncateCursor(@, Len(file.data), length)]
                /\ fr' = base
    /\ UNCHANGED <<fdt, closes>>

\* slice(start, stop, step).indices(length) of Python for step > 0: None is
\* 0 for start and length for stop, a negative bound counts from the end, and
\* both are clipped to 0..length.
SliceBound(b, length, dflt) ==
    IF IsNone(b) THEN dflt
    ELSE IF Val(b) < 0 THEN Max(Val(b) + length, 0)
    ELSE Min(Val(b), length)

\* xrange(lo, hi, step) for step > 0: lo, lo + step, ... below hi.
XRange(lo, hi, step) ==
    [i \in 1..(IF hi > lo THEN ((hi - lo - 1) \div step) + 1 ELSE 0) |->
        lo + (i - 1) * step]

\* File.chunks (fd.py:467-475), the caller taking every chunk of the
\* generator: len(self) is read once, then pread(size, offset) is called for
\* each offset of xrange(*slice(start, stop, size).indices(len(self))).
Chunks(h, size, start, stop) ==
    /\ Idle
    /\ hs[h].st # "none"
    /\ LET d == fdt[hs[h].fd]
           base == [CallFrame("chunks", h) EXCEPT
                       !.size = Some(size), !.pos = Some(start), !.stop = stop,
                       !.at = start]
           length == Len(file.data)
           offs == XRange(SliceBound(Some(start), length, 0),
                          SliceBound(stop, length, length), size)
       IN  IF ~d.open
           THEN fr' = Failed(base, "OSError", "EBADF")
           ELSE IF size = 0
           THEN fr' = Failed(base, "ValueError", "step")
           ELSE IF offs = <<>>
           THEN fr' = base
           ELSE IF ~ReadGuard(GuardFlags(h))
           THEN fr' = Failed(base, "NotReadableFD", "")
           ELSE IF ~CanRead(d.flags)
           THEN fr' = Failed(base, "OSError", "EBADF")
           ELSE fr' = [base EXCEPT !.spans =
                          [i \in 1..Len(offs) |-> PreadAt(file.data, size, offs[i])]]
    /\ UNCHANGED <<file, fdt, hs, closes>>

\* The gate of fd.py:392-397 and 420-425 with the oracle asked first.
PreFlightSpaceFirst(data, spaceOk) ==
    IF ~spaceOk THEN "space" ELSE IF data = <<>> THEN "return" ELSE "loop"

\* What write and pwrite do with data before the loop (fd.py:392-397 and
\* 420-425): empty data returns at once; only then is space_check asked.
PreFlight(data, spaceOk) ==
    IF data = <<>> THEN "return" ELSE IF ~spaceOk THEN "space" ELSE "loop"

\* The position a call addresses with the explicit pos left aside.
CallPosCursor(cur, pos) == cur

\* The position a call addresses (fd.py:390, 418):
\* pos = int(self.pos if pos is None else pos).
CallPos(cur, pos) == IF IsNone(pos) THEN cur ELSE Val(pos)

\* The entry of File.write and File.pwrite up to the loop (fd.py:388-398 and
\* 416-426); seq tells write from pwrite.  spaceOk is the answer
\* fcheck.space_check would give to this call.
WriteBegin(h, data, pos, tries, spaceOk, seq) ==
    /\ Idle
    /\ hs[h].st # "none"
    /\ (IF IsNone(pos) THEN hs[h].pos ELSE Val(pos)) + Len(data) <= MaxSize
    /\ LET d == fdt[hs[h].fd]
           p == CallPos(hs[h].pos, pos)
           base == [CallFrame(IF seq THEN "write" ELSE "pwrite", h) EXCEPT
                       !.data = data, !.pos = pos, !.tries = tries,
                       !.spaceOk = spaceOk, !.seq = seq, !.at = p]
       IN  IF ~d.open
           THEN fr' = Failed(base, "IOError", "EBADF")
           ELSE IF ~WriteGuard(GuardFlags(h))
           THEN fr' = Failed(base, "NotWriteableFD", "")
           ELSE IF PreFlight(data, spaceOk) = "return"
           THEN fr' = base
           ELSE IF PreFlight(data, spaceOk) = "space"
           THEN fr' = Failed(base, "OSError", "space")
           ELSE fr' = [base EXCEPT !.left = tries, !.wlen = 0,
                                   !.pc = "loop", !.err = ""]
    /\ UNCHANGED <<file, fdt, hs, closes>>

Write(h, data, pos, tries, spaceOk) == WriteBegin(h, data, pos, tries, spaceOk, TRUE)
Pwrite(h, data, pos, tries, spaceOk) == WriteBegin(h, data, pos, tries, spaceOk, FALSE)

\* The attempt budget after a primitive result n (fd.py:401-407): a zero
\* result takes one unit, any other result gives the whole budget back.
BudgetAfterNoReset(left, tries, n) == IF n = 0 THEN left - 1 ELSE left

BudgetAfter(left, tries, n) == IF n = 0 THEN left - 1 ELSE tries

\* raise IncompleteWrite(fd, pos, tries) (fd.py:404, 432) against
\* IncompleteWrite.__init__(self, fd, size) (fd.py:56-58): the constructor
\* takes two arguments and is given three, which is a TypeError.
IncompleteWriteParams == <<"fd", "size">>

RaiseIncompleteWrite(args) ==
    IF Len(args) = Len(IncompleteWriteParams)
    THEN [err |-> "IncompleteWrite", payload |-> args]
    ELSE [err |-> "TypeError", payload |-> <<>>]

\* The zero results in a row after a result n.  The count is exact up to
\* MaxTries + 1; beyond, only its parity is kept.
ZeroRunAfter(zrun, n) ==
    IF n # 0 THEN 0
    ELSE IF zrun <= MaxTries THEN zrun + 1
    ELSE IF zrun = MaxTries + 1 THEN MaxTries + 2
    ELSE MaxTries + 1

\* _tries is followed down to tries - MaxTries - 1, which is below zero;
\* every value below that passes the test `not _tries` as that one does.
BudgetFloor(tries) == tries - MaxTries - 1

\* The offset handed to the primitive (fd.py:400, 428): pos + wlen.
ResumeOffsetAtStart(pos, wlen) == pos

ResumeOffset(pos, wlen) == pos + wlen

\* The cursor after the loop with pwrite moving it as write does.
CursorAfterWriteBoth(seq, cur, pos, wlen) == pos + wlen

\* The cursor after the loop: write sets self.pos = pos + wlen (fd.py:408),
\* pwrite has no such line (fd.py:427-435).
CursorAfterWrite(seq, cur, pos, wlen) == IF seq THEN pos + wlen ELSE cur

\* One turn of the while loop (fd.py:399-408, 427-435): the primitive is
\* handed data[wlen:] and pos + wlen and reports n bytes written.
WriteAttempt(n) ==
    /\ fr.pc = "loop"
    /\ LET rest == SubSeq(fr.data, fr.wlen + 1, Len(fr.data))
           off == ResumeOffset(fr.at, fr.wlen)
           d == fdt[fr.fd]
           called == [fr EXCEPT !.off = off, !.buf = rest]
       IN  IF off < 0
           THEN /\ n = 0
                /\ fr' = [Failed(called, "OSError", "EINVAL") EXCEPT !.pc = "done"]
                /\ UNCHANGED <<file, hs>>
           ELSE IF ~d.open \/ ~CanWrite(d.flags)
           THEN /\ n = 0
                /\ fr' = [Failed(called, "OSError", "EBADF") EXCEPT !.pc = "done"]
                /\ UNCHANGED <<file, hs>>
           ELSE /\ n \in 0..Len(rest)
                /\ file' = [file EXCEPT !.data = PwriteAt(@, SubSeq(rest, 1, n), off)]
                /\ LET left == Max(BudgetAfter(fr.left, fr.tries, n),
                                   BudgetFloor(fr.tries))
                       wlen == fr.wlen + n
                       zrun == ZeroRunAfter(fr.zrun, n)
                       now == [called EXCEPT !.left = left, !.wlen = wlen,
                                             !.zrun = zrun, !.n = n]
                       exc == RaiseIncompleteWrite(<<fr.fd, fr.at, fr.tries>>)
                   IN  IF n = 0 /\ left = 0
                       THEN /\ fr' = [now EXCEPT !.pc = "done", !.err = exc.err,
                                                 !.why = "tries",
                                                 !.payload = exc.payload]
                            /\ hs' = hs
                       ELSE IF wlen < Len(fr.data)
                       THEN fr' = now /\ hs' = hs
                       ELSE /\ fr' = [now EXCEPT !.pc = "done", !.err = "ok"]
                            /\ hs' = [hs EXCEPT ![fr.h].pos =
                                         CursorAfterWrite(fr.seq, @, fr.at, wlen)]
    /\ UNCHANGED <<fdt, closes>>

(***************************************************************************)
(* File.pwrite called by two callers at once on one File                   *)
(***************************************************************************)

VARIABLES
    cw         \* the frames of the callers inside pwrite: caller -> frame

cVars == <<cw>>

Callers == {1, 2}

\* The one File the callers share.
Shared == 1

\* The bytes caller c writes: n bytes no other caller writes.
CallerData(c, n) == [i \in 1..n |-> 10 * c + i]

\* The frame of a caller that did not call yet.  pc is "idle", "space" (at
\* the call of space_check), "loop" (at the head of the while loop) or
\* "done".  pos is the argument, at the position the call addresses, cur0
\* the cursor the call found; mixed records that the other
\* caller was inside its call during a turn of this one's loop.
NoCaller ==
    [pc |-> "idle", data |-> <<>>, pos |-> None, at |-> 0, tries |-> 0,
     left |-> 0, wlen |-> 0, err |-> "", cur0 |-> 0, mixed |-> FALSE]

ConcIdle == cw = [c \in Callers |-> NoCaller]

\* The rest of the model keeps still while a caller takes a step.
ConcFrame == UNCHANGED <<fdt, closes, fr, rt>>

\* A caller enters pwrite(data, pos, tries) (fd.py:410-421): write_check
\* reads the flags, the arguments are taken, empty data returns.
ConcPwriteBegin(c, data, pos, tries) ==
    /\ Idle
    /\ cw[c].pc = "idle"
    /\ hs[Shared].st = "live"
    /\ fdt[hs[Shared].fd].open
    /\ LET base == [NoCaller EXCEPT !.data = data, !.tries = tries, !.pos = pos,
                                    !.at = CallPos(hs[Shared].pos, pos),
                                    !.cur0 = hs[Shared].pos]
       IN  cw' = [cw EXCEPT ![c] =
                     IF ~WriteGuard(GuardFlags(Shared))
                     THEN [base EXCEPT !.pc = "done", !.err = "NotWriteableFD"]
                     ELSE IF PreFlight(data, TRUE) = "return"
                     THEN [base EXCEPT !.pc = "done", !.err = "ok"]
                     ELSE [base EXCEPT !.pc = "space"]]
    /\ UNCHANGED <<file, hs>>
    /\ ConcFrame

\* The caller's space_check answers (fd.py:422-426).
ConcSpaceCheck(c, spaceOk) ==
    /\ cw[c].pc = "space"
    /\ cw' = [cw EXCEPT ![c] =
                 IF PreFlight(cw[c].data, spaceOk) = "space"
                 THEN [@ EXCEPT !.pc = "done", !.err = "OSError"]
                 ELSE [@ EXCEPT !.pc = "loop", !.left = cw[c].tries, !.wlen = 0]]
    /\ UNCHANGED <<file, hs>>
    /\ ConcFrame

\* One turn of the caller's while loop (fd.py:427-435), the primitive
\* reporting n bytes written.
ConcAttempt(c, n) ==
    /\ cw[c].pc = "loop"
    /\ LET me == cw[c]
           rest == SubSeq(me.data, me.wlen + 1, Len(me.data))
           off == ResumeOffset(me.at, me.wlen)
           d == fdt[hs[Shared].fd]
           left == BudgetAfter(me.left, me.tries, n)
           wlen == me.wlen + n
           mixed == me.mixed \/ \E e \in Callers \ {c} : cw[e].pc \in {"space", "loop"}
           now == [me EXCEPT !.left = left, !.wlen = wlen, !.mixed = mixed]
       IN  IF off < 0 \/ ~d.open \/ ~CanWrite(d.flags)
           THEN /\ n = 0
                /\ cw' = [cw EXCEPT ![c] = [me EXCEPT !.pc = "done", !.err = "OSError"]]
                /\ UNCHANGED <<file, hs>>
           ELSE /\ n \in 0..Len(rest)
                /\ file' = [file EXCEPT !.data = PwriteAt(@, SubSeq(rest, 1, n), off)]
                /\ IF n = 0 /\ left = 0
                   THEN /\ cw' = [cw EXCEPT ![c] =
                                    [now EXCEPT !.pc = "done",
                                                !.err = RaiseIncompleteWrite(
                                                    <<hs[Shared].fd, me.at, me.tries>>).err]]
                        /\ hs' = hs
                   ELSE IF wlen < Len(me.data)
                   THEN cw' = [cw EXCEPT ![c] = now] /\ hs' = hs
                   ELSE /\ cw' = [cw EXCEPT ![c] = [now EXCEPT !.pc = "done", !.err = "ok"]]
                        /\ hs' = [hs EXCEPT ![Shared].pos =
                                     CursorAfterWrite(FALSE, @, me.at, wlen)]
    /\ ConcFrame

VARIABLES kSrc, kPat, kStart, kStop, kPc, kOut, kFirst, kFind

kVars == <<kSrc, kPat, kStart, kStop, kPc, kOut, kFirst, kFind>>

vars == <<kVars, ioVars, cVars>>

\* The inputs of one run: a source, a non-empty pattern, bounds start <= stop
\* (stop may be left out, and may lie beyond the end of the source).
KnpInit ==
    /\ kSrc \in SeqsOf(Alphabet, 0, MaxSrc)
    /\ kPat \in SeqsOf(Alphabet, 1, MaxPat)
    /\ kStart \in 0..(MaxSrc + 1)
    /\ kStop \in {None} \cup {Some(n) : n \in 0..(MaxSrc + 1)}
    /\ (IF IsNone(kStop) THEN TRUE ELSE kStart <= Val(kStop))
    /\ kPc = "knp"
    /\ kOut = <<>>
    /\ kFirst = -1
    /\ kFind = 0

\* No search runs.
KnpIdle ==
    /\ kSrc = <<>>
    /\ kPat = <<1>>
    /\ kStart = 0
    /\ kStop = None
    /\ kPc = "off"
    /\ kOut = <<>>
    /\ kFirst = -1
    /\ kFind = 0

\* The caller drains the generator knp(...).
KnpRun ==
    /\ kPc = "knp"
    /\ kOut' = knp(kSrc, kPat, kStart, kStop)
    /\ kPc' = "first"
    /\ UNCHANGED <<kSrc, kPat, kStart, kStop, kFirst, kFind, ioVars, cVars>>

KnpFirstRun ==
    /\ kPc = "first"
    /\ kFirst' = knp_first(kSrc, kPat, kStart, kStop)
    /\ kPc' = "find"
    /\ UNCHANGED <<kSrc, kPat, kStart, kStop, kOut, kFind, ioVars, cVars>>

KnpFindRun ==
    /\ kPc = "find"
    /\ kFind' = knp_find(kSrc, kPat, kStart, kStop)
    /\ kPc' = "done"
    /\ UNCHANGED <<kSrc, kPat, kStart, kStop, kOut, kFirst, ioVars, cVars>>

\* No file exists and no handle was constructed.
IoIdle ==
    /\ file = [exists |-> FALSE, data |-> <<>>]
    /\ fdt = [fd \in Fds |-> ClosedFd]
    /\ hs = [h \in Handles |-> NoHandle]
    /\ closes = [h \in Handles |-> 0]
    /\ fr = NoFrame
    /\ rt = None

KnpNext == KnpRun \/ KnpFirstRun \/ KnpFindRun

\* A search is about to run; the descriptor layer is not used.
KnpStart == KnpInit /\ IoIdle /\ ConcIdle

SpecKnp == KnpStart /\ [][KnpNext]_vars

(***************************************************************************)
(* The specifications of the descriptor layer                              *)
(***************************************************************************)

\* The permission bits callers pass: the default 0666 (fd.py:321) and 0010.
ModeSet == {438, 8}

\* The file either does not exist yet or holds some earlier content.
IoInit ==
    /\ file \in {[exists |-> FALSE, data |-> <<>>],
                 [exists |-> TRUE, data |-> <<2, 1>>]}
    /\ fdt = [fd \in Fds |-> ClosedFd]
    /\ hs = [h \in Handles |-> NoHandle]
    /\ closes = [h \in Handles |-> 0]
    /\ fr = NoFrame
    /\ rt = None

\* The descriptor layer is about to be used; no search runs.
IoStart == IoInit /\ KnpIdle /\ ConcIdle

OpenStep(H) ==
    \E h \in H, oflag \in 0..(FO_APPEND + 1), mode \in ModeSet,
       modeOk \in BOOLEAN, inoOk \in BOOLEAN :
        FileOpen(h, oflag, mode, modeOk, inoOk)

\* Callers wrap descriptors open for reading and writing.
WrapStep(H) ==
    \E h \in H, flags \in {O_RDWR, BitOr(O_RDWR, O_APPEND)} : FileWrap(h, flags)

TouchStep == \E mode \in ModeSet, modeOk \in BOOLEAN : Touch(mode, modeOk)

CloseStep(H) == \E h \in H : Close(h)
ExitStep(H) == \E h \in H : ScopedExit(h)
SizeStep(H) == \E h \in H : SizeQuery(h)
FlagsGetStep(H) == \E h \in H : FlagsGet(h)
FlagsSetStep(H) == \E h \in H, flags \in {0, O_APPEND} : FlagsSet(h, flags)
ReadStep(H) ==
    \E h \in H, size \in OptInts(-1, MaxSize), pos \in OptInts(-1, MaxSize) :
        Read(h, size, pos)
PreadStep(H) ==
    \E h \in H, size \in OptInts(-1, MaxSize), pos \in OptInts(-1, MaxSize) :
        Pread(h, size, pos)
GetItemStep(H) == \E h \in H, index \in -1..MaxSize : GetItem(h, index)
MovetoStep(H) == \E h \in H, pos \in -1..MaxSize : Moveto(h, pos)
TruncateStep(H) == \E h \in H, length \in -1..MaxSize : Truncate(h, length)
ChunksStep(H) ==
    \E h \in H, size \in 0..MaxSize, start \in -1..MaxSize,
       stop \in OptInts(-1, MaxSize) :
        Chunks(h, size, start, stop)
WriteStep(H) ==
    \E h \in H, data \in DataSet, pos \in OptInts(-1, MaxSize - 1),
       tries \in TriesSet, spaceOk \in BOOLEAN :
        Write(h, data, pos, tries, spaceOk)
PwriteStep(H) ==
    \E h \in H, data \in DataSet, pos \in OptInts(-1, MaxSize - 1),
       tries \in TriesSet, spaceOk \in BOOLEAN :
        Pwrite(h, data, pos, tries, spaceOk)
AttemptStep == \E n \in 0..MaxData : WriteAttempt(n)

\* rt after a step: a write or pwrite of non-empty data at position 0 that
\* returned, through a handle whose File.open made the file, sets it to
\* <<data>>; a pread leaves it; every other call clears it.
RtAfter ==
    IF /\ fr'.op \in {"write", "pwrite"}
       /\ fr'.pc = "done"
       /\ fr'.err = "ok"
       /\ fr'.at = 0
       /\ fr'.data # <<>>
       /\ hs[fr'.h].made
    THEN Some(fr'.data)
    ELSE IF fr'.op = "pread" THEN rt
    ELSE None

\* What every step of the descriptor layer does besides the call itself.
Ghost == rt' = RtAfter /\ UNCHANGED <<kVars, cVars>>

\* The life of handles: any handle is opened, queried and closed, in any
\* order, closed handles included.
IoNext ==
    \/ OpenStep(Handles) /\ Ghost
    \/ CloseStep(Handles) /\ Ghost
    \/ ExitStep(Handles) /\ Ghost
    \/ SizeStep(Handles) /\ Ghost
    \/ FlagsGetStep(Handles) /\ Ghost

Spec == IoStart /\ [][IoNext]_vars

\* Files are opened, touched and closed, in any order.
OpenNext ==
    \/ OpenStep(Handles) /\ Ghost
    \/ TouchStep /\ Ghost
    \/ CloseStep(Handles) /\ Ghost

SpecOpen == IoStart /\ [][OpenNext]_vars

\* The calls of one File: the handle is opened, read, written, truncated,
\* moved and closed.
FileNext ==
    \/ OpenStep({1}) /\ Ghost
    \/ WrapStep({1}) /\ Ghost
    \/ FlagsSetStep({1}) /\ Ghost
    \/ ReadStep({1}) /\ Ghost
    \/ PreadStep({1}) /\ Ghost
    \/ GetItemStep({1}) /\ Ghost
    \/ MovetoStep({1}) /\ Ghost
    \/ TruncateStep({1}) /\ Ghost
    \/ ChunksStep({1}) /\ Ghost
    \/ WriteStep({1}) /\ Ghost
    \/ PwriteStep({1}) /\ Ghost
    \/ AttemptStep /\ Ghost

SpecIO == IoStart /\ [][FileNext]_vars

\* The write path of one File: the handle is opened, written through with
\* write and pwrite, and read back with pread; its flags may be changed.
WriteNext ==
    \/ OpenStep({1}) /\ Ghost
    \/ FlagsSetStep({1}) /\ Ghost
    \/ PreadStep({1}) /\ Ghost
    \/ WriteStep({1}) /\ Ghost
    \/ PwriteStep({1}) /\ Ghost
    \/ AttemptStep /\ Ghost

SpecWrite == IoStart /\ [][WriteNext]_vars

\* The write path with its loop running on: a call that is inside its
\* while loop goes on to the next turn.
SpecWriteFair == SpecWrite /\ WF_vars(AttemptStep /\ Ghost)

\* The shared File is opened for writing or for reading, and moved.
ConcOpenStep ==
    \E oflag \in {FO_WRITE, FO_READ} :
        FileOpen(Shared, oflag, 438, TRUE, TRUE)
ConcMoveStep ==
    /\ \A c \in Callers : cw[c].pc = "idle"
    /\ fr.op = "open"
    /\ \E pos \in 1..MaxSize : Moveto(Shared, pos)

ConcBeginStep ==
    \E c \in Callers, n \in 1..MaxData, pos \in 0..MaxSize, tries \in 1..MaxTries :
        ConcPwriteBegin(c, CallerData(c, n), Some(pos), tries)
ConcSpaceStep == \E c \in Callers, spaceOk \in BOOLEAN : ConcSpaceCheck(c, spaceOk)
ConcAttemptStep == \E c \in Callers, n \in 0..MaxData : ConcAttempt(c, n)

\* Two callers inside pwrite of one File at once: their entries, space
\* checks and loop turns in any order.
ConcNext ==
    \/ ConcOpenStep /\ Ghost
    \/ ConcMoveStep /\ Ghost
    \/ ConcBeginStep /\ UNCHANGED kVars
    \/ ConcSpaceStep /\ UNCHANGED kVars
    \/ ConcAttemptStep /\ UNCHANGED kVars

SpecConc == IoStart /\ [][ConcNext]_vars

\* The cursor of one File: the handle is opened, read, moved and truncated;
\* its flags may be changed.
CursorNext ==
    \/ OpenStep({1}) /\ Ghost
    \/ FlagsSetStep({1}) /\ Ghost
    \/ ReadStep({1}) /\ Ghost
    \/ MovetoStep({1}) /\ Ghost
    \/ TruncateStep({1}) /\ Ghost
    \/ ChunksStep({1}) /\ Ghost

SpecCursor == IoStart /\ [][CursorNext]_vars

\* The offsets an exhaustive scan finds: every i with start <= i,
\* i + len(P) <= stop and S[i : i + len(P)] = P.
Occurrences(source, pattern, start, stop) ==
    LET last == IF IsNone(stop) THEN Len(source) ELSE Val(stop)
    IN  {i \in 0..Len(source) :
            /\ start <= i
            /\ i + Len(pattern) <= last
            /\ i + Len(pattern) <= Len(source)
            /\ SubSeq(source, i + 1, i + Len(pattern)) = pattern}

\* C1: knp yields, strictly ascending, exactly the offsets of the occurrences
\* of the pattern within the bounds; knp_first is the least of them or -1;
\* knp_find is true exactly when there is one.
C1_KnpExact ==
    LET occ == Occurrences(kSrc, kPat, kStart, kStop)
    IN  /\ kPc \in {"first", "find", "done"} =>
              /\ {kOut[j] : j \in 1..Len(kOut)} = occ
              /\ \A j \in 1..(Len(kOut) - 1) : kOut[j] < kOut[j + 1]
        /\ kPc \in {"find", "done"} =>
              kFirst = (IF occ = {} THEN -1
                        ELSE CHOOSE i \in occ : \A o \in occ : i <= o)
        /\ kPc = "done" => ((kFind # 0) <=> (occ # {}))

\* Overlapping occurrences were reported, within bounds that cut the source.
C1_Witness ==
    /\ kPc = "done"
    /\ Len(kOut) >= 2
    /\ kOut[2] - kOut[1] < Len(kPat)
    /\ kStart > 0
    /\ ~IsNone(kStop)
    /\ kFirst = kOut[1]
    /\ kFind = 1
(***************************************************************************)
(* The claims about the descriptor layer                                   *)
(***************************************************************************)

\* C2: close() is idempotent: a repeated close() of a handle does not fail,
\* and over the life of a handle the close primitive is invoked on its
\* descriptor once at most.
C2_CloseIdempotent ==
    /\ \A h \in Handles : closes[h] <= 1
    /\ (fr.op \in {"close", "exit"} /\ fr.stale) => fr.err = "ok"

\* C3: a closed handle is inert: no call on it is valid, and none acts on a
\* descriptor another live handle holds, so a live handle's descriptor stays
\* open and its own.
C3_ClosedInert ==
    /\ fr.stale => (fr.err # "ok" /\ fr.owner \in {0, fr.h})
    /\ \A h \in Handles :
          hs[h].st = "live" => (fdt[hs[h].fd].open /\ fdt[hs[h].fd].owner = h)

\* C4: the inode check follows the open mode alone: with valid permission
\* bits, a denial of the inode oracle makes every creating mode fail, and no
\* open of an existing-file mode ever fails for want of inodes.
C4_InodeCheckByIntent ==
    (fr.op = "open" /\ fr.oflag \in FO_MODES /\ fr.modeOk) =>
        /\ (fr.oflag \in FO_NEW_MODES /\ ~fr.inoOk) => fr.err # "ok"
        /\ fr.oflag \notin FO_NEW_MODES => fr.why # "inodes"

\* C5: when a create-exclusive mode created the file and the inode check
\* then failed, File.open fails, returns no handle, and the file it created
\* is gone.
C5_RollbackRemovesFile ==
    (/\ fr.op = "open"
     /\ fr.oflag \in {FO_READNEW, FO_WRNEW, FO_APNEW}
     /\ fr.why = "inodes") =>
        /\ fr.err # "ok"
        /\ hs[fr.h].st = "none"
        /\ ~file.exists

(***************************************************************************)
(* The claims about the write path                                         *)
(***************************************************************************)

AccessMode(h) == BitAnd(fdt[hs[h].fd].flags, O_ACCMODE)

\* A write or pwrite that returned or raised: non-empty data at position 0,
\* through a handle whose File.open created the file, the space oracle
\* granting, tries >= 1.
FreshWriteDone ==
    /\ fr.op \in {"write", "pwrite"}
    /\ fr.pc = "done"
    /\ hs[fr.h].made
    /\ fr.at = 0
    /\ fr.data # <<>>
    /\ fr.spaceOk
    /\ fr.tries >= 1

\* A pread(len(B), 0) right after such a write of B.
RoundTripPread ==
    /\ fr.op = "pread"
    /\ rt # None
    /\ fr.size = Some(Len(Val(rt)))
    /\ fr.at = 0

\* C6 as claimed: through the handle of any creating mode the write of B at
\* 0 succeeds (unless the writer exhausts the budget) and pread(len(B), 0) on
\* that handle returns B.
C6_RoundTripSameHandle ==
    /\ FreshWriteDone => (fr.err = "ok" \/ fr.why = "tries")
    /\ RoundTripPread => (fr.err = "ok" /\ fr.ret = Val(rt))

\* C6, amended: through the handle of a creating mode that opens for writing
\* the write of B at 0 succeeds (unless the writer exhausts the budget) and
\* the file then holds B at [0, len(B)), which is what the read primitive
\* returns for (len(B), 0); pread on that handle raises NotReadableFD; through
\* the handle of a creating mode that opens for reading the write fails.
C6_RoundTrip ==
    /\ (FreshWriteDone /\ AccessMode(fr.h) = O_WRONLY) =>
          /\ fr.err = "ok" \/ fr.why = "tries"
          /\ fr.err = "ok" => PreadAt(file.data, Len(fr.data), 0) = fr.data
    /\ (FreshWriteDone /\ AccessMode(fr.h) = O_RDONLY) => fr.err # "ok"
    /\ RoundTripPread =>
          /\ fr.err = "NotReadableFD"
          /\ PreadAt(file.data, Len(Val(rt)), 0) = Val(rt)

\* The two bytes 1, 2 were written in two turns and pread(2, 0) was called.
C6_Witness ==
    /\ RoundTripPread
    /\ rt = Some(<<1, 2>>)
    /\ fr.err = "NotReadableFD"
    /\ file.data = <<1, 2>>

\* A write or pwrite with tries >= 1 that reached its loop and whose
\* primitive never raised.
InLoop ==
    /\ fr.op \in {"write", "pwrite"}
    /\ fr.tries >= 1
    /\ fr.pc = "loop" \/ fr.buf # <<>>
    /\ ~(fr.err = "OSError" /\ fr.why \in {"EINVAL", "EBADF"})

\* C7: with tries >= 1 the loop succeeds exactly when the primitive never
\* returns zero tries times in a row; a non-zero result gives the whole
\* budget back; each call of the primitive gets the unwritten suffix and the
\* offset pos + bytes written; on success the file holds data at pos and
\* write leaves the cursor at pos + len(data).
C7_RetryBudget ==
    InLoop =>
        /\ fr.left = fr.tries - fr.zrun
        /\ fr.pc = "loop" =>
              (fr.zrun < fr.tries /\ fr.wlen < Len(fr.data) /\ fr.err = "")
        /\ fr.pc = "done" =>
              /\ (fr.err = "ok") <=> (fr.zrun < fr.tries)
              /\ fr.err = "ok" => fr.wlen = Len(fr.data)
              /\ fr.err # "ok" => (fr.zrun = fr.tries /\ fr.wlen < Len(fr.data))
        /\ fr.buf # <<>> =>
              /\ fr.off = fr.at + (fr.wlen - fr.n)
              /\ fr.buf = SubSeq(fr.data, fr.wlen - fr.n + 1, Len(fr.data))
        /\ PreadAt(file.data, fr.wlen, fr.at) = SubSeq(fr.data, 1, fr.wlen)
        /\ (fr.pc = "done" /\ fr.err = "ok" /\ fr.seq) =>
              hs[fr.h].pos = fr.at + Len(fr.data)

\* A write of two bytes succeeded with its last turn resuming at pos + 1.
C7_Witness ==
    /\ InLoop
    /\ fr.op = "write"
    /\ fr.pc = "done"
    /\ fr.err = "ok"
    /\ fr.tries = 2
    /\ Len(fr.data) = 2
    /\ fr.off = fr.at + 1
    /\ fr.buf = <<2>>

\* C8: a budget exhausted by zero results raises IncompleteWrite carrying the
\* descriptor, the attempted position and the bytes written so far.
C8_IncompleteWriteCarries ==
    (fr.op \in {"write", "pwrite"} /\ fr.pc = "done" /\ fr.why = "tries") =>
        /\ fr.err = "IncompleteWrite"
        /\ fr.payload = <<fr.fd, fr.at, fr.wlen>>

(***************************************************************************)
(* The claims about truncate and the cursor                                *)
(***************************************************************************)

C10_DocstringCursor ==
    (fr.op = "truncate" /\ fr.err = "ok") =>
        /\ hs[fr.h].pos <= Len(file.data)
        /\ fr.oldPos <= Val(fr.size) => hs[fr.h].pos = fr.oldPos

(***************************************************************************)
(* The claims about the guards                                             *)
(***************************************************************************)

\* C11: the guards follow the access mode of the descriptor: write, pwrite
\* and truncate raise NotWriteableFD exactly when the access mode is
\* read-only, whatever the append bit; read and pread raise NotReadableFD
\* exactly when the access mode is write-only.
C11_GuardsFollowAccessMode ==
    /\ fr.op \in {"write", "pwrite", "truncate"} =>
          ((fr.err = "NotWriteableFD") <=> (AccessMode(fr.h) = O_RDONLY))
    /\ fr.op \in {"read", "pread"} =>
          ((fr.err = "NotReadableFD") <=> (AccessMode(fr.h) = O_WRONLY))

(***************************************************************************)
(* The claims about chunks                                                 *)
(***************************************************************************)

RECURSIVE Flatten(_)
Flatten(seqs) == IF seqs = <<>> THEN <<>> ELSE Head(seqs) \o Flatten(Tail(seqs))

\* C12: chunks(size, start, stop) with size >= 1 and start >= 0 yields spans
\* whose concatenation is the content of [start, min(stop, file size)): each
\* span has length size but the last, which may be shorter; no span holds a
\* byte at or beyond stop; the cursor is as it was.
C12_ChunksCover ==
    (/\ fr.op = "chunks"
     /\ fr.err = "ok"
     /\ Val(fr.size) >= 1
     /\ fr.at >= 0
     /\ (IF IsNone(fr.stop) THEN TRUE ELSE Val(fr.stop) >= 0)) =>
        LET size == Val(fr.size)
            length == Len(file.data)
            last == IF IsNone(fr.stop) THEN length ELSE Min(Val(fr.stop), length)
            k == Len(fr.spans)
        IN  /\ Flatten(fr.spans) = PySlice(file.data, fr.at, last)
            /\ \A i \in 1..k :
                  /\ Len(fr.spans[i]) \in 1..size
                  /\ i < k => Len(fr.spans[i]) = size
                  /\ fr.at + (i - 1) * size + Len(fr.spans[i]) <= last
            /\ hs[fr.h].pos = fr.oldPos

(***************************************************************************)
(* The claims about the space gate                                         *)
(***************************************************************************)

\* A step that is the entry of a write or pwrite through a handle that
\* passes write_check.
GatedWriteEntry ==
    /\ fr.pc = "done"
    /\ fr'.op \in {"write", "pwrite"}
    /\ fdt[fr'.fd].open
    /\ WriteGuard(fdt[fr'.fd].flags)

\* C13: a write or pwrite of non-empty data that the space oracle denies
\* raises before the write primitive is called and leaves content, size and
\* cursor as they were; a write or pwrite of empty data returns at once,
\* whatever the oracle would answer and whatever pos is, calling no
\* primitive and leaving content, size and cursor as they were.
C13_SpaceGate ==
    [][GatedWriteEntry =>
          /\ (fr'.data # <<>> /\ ~fr'.spaceOk) =>
                /\ fr'.err = "OSError" /\ fr'.why = "space"
                /\ fr'.pc = "done" /\ fr'.buf = <<>>
                /\ file' = file /\ hs' = hs
          /\ fr'.data = <<>> =>
                /\ fr'.err = "ok"
                /\ fr'.pc = "done" /\ fr'.buf = <<>>
                /\ file' = file /\ hs' = hs]_vars

\* A pwrite of two bytes at an explicit position into a file with content
\* was denied by the space oracle.
C13_Witness ==
    /\ fr.op = "pwrite"
    /\ fr.err = "OSError" /\ fr.why = "space"
    /\ Len(fr.data) = 2
    /\ fr.pos = Some(0)
    /\ file.data = <<2, 1>>

(***************************************************************************)
(* The claims about touch and about the descriptors of File.open           *)
(***************************************************************************)

\* C14: touch raises an I/O error when a file exists at the path, and
\* creates the file when none exists.
C14_TouchExisting ==
    (fr.op = "touch" /\ fr.modeOk) =>
        /\ fr.existed => fr.err \in {"IOError", "OSError"}
        /\ (~fr.existed /\ fr.err = "ok") => file.exists

\* C15: a File.open that fails leaks no descriptor.  An unknown open mode
\* and invalid permission bits fail before os.open: no descriptor, no file
\* made.  A failure after os.open closes the descriptor it got.  So every
\* open descriptor is the one of a handle File.open returned, and while no
\* handle was closed every returned handle's descriptor is open.
C15_NoLeak ==
    /\ \A fd \in Fds :
          fdt[fd].open =>
              /\ fdt[fd].owner \in Handles
              /\ hs[fdt[fd].owner].st # "none"
              /\ hs[fdt[fd].owner].fd = fd
    /\ (\A h \in Handles : closes[h] = 0) =>
          \A h \in Handles : hs[h].st = "live" => fdt[hs[h].fd].open
    /\ (fr.op = "open" /\ fr.err # "ok") =>
          /\ hs[fr.h].st = "none"
          /\ fr.why \in {"oflag", "mode"} =>
                (fr.rawfd = -1 /\ file.exists = fr.existed)
          /\ fr.rawfd # -1 => (fr.rawClosed = 1 /\ ~fdt[fr.rawfd].open)

\* An open failed at the inode check while another handle held a
\* descriptor: the descriptor it got was the second one.
C15_Witness ==
    /\ fr.op = "open"
    /\ fr.why = "inodes"
    /\ fr.rawfd = 1
    /\ fdt[0].open
    /\ ~fdt[1].open

(***************************************************************************)
(* The claims about the end of the write loop                              *)
(***************************************************************************)

\* C16: the write loop ends: for every tries, zero and below included, and
\* every sequence of results of the write primitive, a write or pwrite that
\* entered its loop returns or raises after finitely many turns.
C16_LoopTerminates == (fr.pc = "loop") ~> (fr.pc = "done")

(***************************************************************************)
(* The claims about the positioned and the sequential calls                *)
(***************************************************************************)

\* What a read or a pread of sz bytes at position at comes to on a
\* descriptor with these flags.
ReadOutcome(flags, sz, at) ==
    IF BitAnd(flags, O_ACCMODE) = O_WRONLY THEN "NotReadableFD"
    ELSE IF sz < 0 THEN "ValueError"
    ELSE IF at < 0 THEN "OSError"
    ELSE "ok"

\* What a write or a pwrite that is over came to, given the bytes the
\* primitive took in all.
WriteOutcome(flags, data, at, spaceOk, wlen) ==
    IF ~WriteGuard(flags) THEN "NotWriteableFD"
    ELSE IF data = <<>> THEN "ok"
    ELSE IF ~spaceOk \/ at < 0 \/ ~CanWrite(flags) THEN "OSError"
    ELSE IF wlen = Len(data) THEN "ok"
    ELSE "TypeError"

\* The size a read asks for: the size of the file when size is None.
AskedSize == IF IsNone(fr.size) THEN Len(file.data) ELSE Val(fr.size)

\* The position a call addresses: the cursor it found when pos is None.
AskedPos == IF IsNone(fr.pos) THEN fr.oldPos ELSE Val(fr.pos)

\* C17: pread and pwrite leave the cursor as it was, whether they return or
\* raise, whether pos is given or not; read and pread come to the same
\* bytes or the same failure for the same file, flags and arguments; write
\* and pwrite come to the same outcome and the same content at the position
\* for the same file, flags, arguments and results of the primitive.
C17_PositionedTwins ==
    /\ fr.op \in {"pread", "pwrite"} => hs[fr.h].pos = fr.oldPos
    /\ (fr.op \in {"read", "pread"} /\ fdt[fr.fd].open) =>
          /\ fr.err = ReadOutcome(fdt[fr.fd].flags, AskedSize, AskedPos)
          /\ fr.err = "ok" =>
                fr.ret = PySlice(file.data, AskedPos, AskedPos + AskedSize)
    /\ (fr.op \in {"write", "pwrite"} /\ fr.pc = "done" /\ fdt[fr.fd].open) =>
          /\ fr.err = WriteOutcome(fdt[fr.fd].flags, fr.data, AskedPos,
                                   fr.spaceOk, fr.wlen)
          /\ fr.err = "ok" =>
                PySlice(file.data, AskedPos, AskedPos + Len(fr.data)) = fr.data

\* A pwrite of two bytes at a given position returned in two turns, the
\* cursor standing elsewhere.
C17_Witness ==
    /\ fr.op = "pwrite"
    /\ fr.err = "ok"
    /\ fr.pos = Some(0)
    /\ Len(fr.data) = 2
    /\ fr.n = 1
    /\ hs[fr.h].pos = 1

(***************************************************************************)
(* The claims about read                                                   *)
(***************************************************************************)

\* C18: read(size, pos) returns the bytes of [p, min(p + size, file size)),
\* p being pos or the cursor and size defaulting to all there is, and
\* leaves the cursor at p + (bytes returned); a read that raises leaves the
\* cursor as it was.
C18_ReadAdvances ==
    fr.op = "read" =>
        /\ fr.err = "ok" =>
              /\ fr.ret = PySlice(file.data, AskedPos,
                                  Min(AskedPos + AskedSize, Len(file.data)))
              /\ hs[fr.h].pos = AskedPos + Len(fr.ret)
        /\ fr.err # "ok" => hs[fr.h].pos = fr.oldPos
        /\ (AskedSize < 0 /\ fdt[fr.fd].open /\ ReadGuard(fdt[fr.fd].flags)) =>
              fr.err = "ValueError"

\* A read at a given position got fewer bytes than it asked for.
C18_Witness ==
    /\ fr.op = "read"
    /\ fr.err = "ok"
    /\ fr.pos = Some(1)
    /\ fr.oldPos # 1
    /\ fr.size = Some(2)
    /\ Len(fr.ret) = 1
    /\ hs[fr.h].pos = 2

(***************************************************************************)
(* The claims about the cursor and about the guards over time              *)
(***************************************************************************)

\* C19: the cursor of every File is >= 0 in every reachable state, whatever
\* the calls and their arguments and whether they return or raise; moveto
\* with a negative position raises and leaves the cursor as it was.
C19_CursorNonNegative ==
    /\ \A h \in Handles : hs[h].pos >= 0
    /\ (fr.op = "moveto" /\ Val(fr.pos) < 0) =>
          (fr.err = "ValueError" /\ hs[fr.h].pos = fr.oldPos)

\* moveto(-1) was refused with the cursor standing beyond the start.
C19_Witness ==
    /\ fr.op = "moveto"
    /\ fr.pos = Some(-1)
    /\ fr.err = "ValueError"
    /\ hs[fr.h].pos = 2

\* C20: every read, pread, write, pwrite and truncate is accepted or
\* refused by the flags the descriptor has at the time of that call, also
\* when they were changed after the handle was made or after an earlier
\* call.
C20_GuardsLive ==
    /\ (fr.op \in {"read", "pread"} /\ fdt[fr.fd].open) =>
          ((fr.err = "NotReadableFD") <=> ~ReadGuard(fdt[fr.fd].flags))
    /\ (fr.op \in {"write", "pwrite", "truncate"} /\ fdt[fr.fd].open) =>
          ((fr.err = "NotWriteableFD") <=> ~WriteGuard(fdt[fr.fd].flags))

\* A write passed the guard on a descriptor File.open made read-only: its
\* O_APPEND was set afterwards.
C20_Witness ==
    /\ fr.op = "write"
    /\ fr.err # "NotWriteableFD"
    /\ fr.data # <<>>
    /\ AccessMode(fr.h) = O_RDONLY
    /\ BitAnd(fdt[fr.fd].flags, O_APPEND) # 0

(***************************************************************************)
(* The claims about callers at once                                        *)
(***************************************************************************)

\* The bytes [pos, pos + len(data)) of the calls of c and e do not meet.
Disjoint(c, e) ==
    \/ Val(cw[c].pos) + Len(cw[c].data) <= Val(cw[e].pos)
    \/ Val(cw[e].pos) + Len(cw[e].data) <= Val(cw[c].pos)

\* C21: two callers inside pwrite of one file with explicit positions and
\* disjoint ranges: in every order of their space checks and loop turns,
\* partial writes and retries included, a call holds what it wrote so far
\* in its own range, so a call that returns leaves its range holding its
\* data; and no call changes the cursor.
C21_DisjointWritesSafe ==
    \A c \in Callers :
        cw[c].pc # "idle" =>
            /\ hs[Shared].pos = cw[c].cur0
            /\ (\A e \in Callers \ {c} : cw[e].pc = "idle" \/ Disjoint(c, e)) =>
                  /\ PySlice(file.data, Val(cw[c].pos), Val(cw[c].pos) + cw[c].wlen)
                        = SubSeq(cw[c].data, 1, cw[c].wlen)
                  /\ (cw[c].pc = "done" /\ cw[c].err = "ok") =>
                        cw[c].wlen = Len(cw[c].data)

\* Both callers returned after turns taken while the other was inside its
\* call: two bytes each, the second caller's before the first caller's, the
\* cursor standing at 1.
C21_Witness ==
    /\ \A c \in Callers :
          /\ cw[c].pc = "done" /\ cw[c].err = "ok"
          /\ cw[c].mixed
          /\ Len(cw[c].data) = 2
    /\ cw[2].pos = Some(0)
    /\ cw[1].pos = Some(2)
    /\ file.data = <<21, 22, 11, 12>>
    /\ hs[Shared].pos = 1
====
